---- MODULE Spec2Model ----
(***************************************************************************)
(* Model of syngo: the two-phase directory / file synchronisation          *)
(* pipeline of syngo.go, syncSrc.go and syncTgt.go.                        *)
(*                                                                         *)
(* The filesystem is a function from locations (component sequences below *)
(* the filesystem root, which is also the working directory) to nodes.     *)
(* Path strings are records [abs, segs]: abs tells whether the string      *)
(* starts with a separator, segs are its components.                       *)
(***************************************************************************)
EXTENDS Integers, Sequences, FiniteSets, TLC

\* syngo.go:17-18
numCheckers == 3
numSyncers == 2

\* number of pipeline runs performed in succession on the same trees
MaxRuns == 2
\* number of symbolic links one path resolution follows before giving up
MaxLinks == 3

Checkers == 1..numCheckers
Syncers == 1..numSyncers

----------------------------------------------------------------------------
(* Path strings                                                            *)

Path(abs, segs) == [abs |-> abs, segs |-> segs]
NoPath == Path(FALSE, <<>>)
Last(s) == s[Len(s)]
Front(s) == SubSeq(s, 1, Len(s) - 1)

\* Recursive operators come as a step on evaluated arguments and an
\* operator that evaluates the arguments once and takes the step.
RECURSIVE CleanSegs(_, _, _)
CleanStep(abs, acc, rest) ==
    IF rest = <<>> THEN acc
    ELSE LET c == Head(rest) IN
         IF c = "." THEN CleanSegs(abs, acc, Tail(rest))
         ELSE IF c = ".." THEN
              IF acc # <<>> /\ Last(acc) # ".."
              THEN CleanSegs(abs, Front(acc), Tail(rest))
              ELSE IF abs THEN CleanSegs(abs, acc, Tail(rest))
              ELSE CleanSegs(abs, Append(acc, ".."), Tail(rest))
         ELSE CleanSegs(abs, Append(acc, c), Tail(rest))
CleanSegs(abs, acc0, rest0) ==
    CHOOSE v \in {CleanStep(abs, acc, rest) : acc \in {acc0}, rest \in {rest0}} : TRUE

\* path.Clean / filepath.Clean
Clean(p) == Path(p.abs, CleanSegs(p.abs, <<>>, p.segs))

\* filepath.Join(base, rel): the two strings joined by a separator, cleaned;
\* a leading separator of rel disappears in the cleaning
Join(base, rel) == Clean(Path(base.abs, base.segs \o rel.segs))

\* filepath.Dir / path.Dir of a cleaned path with at least one component
Dir(p) == Path(p.abs, Front(p.segs))

\* the string p starts with the string d followed by a separator
HasDirPrefix(p, d) ==
    /\ d.segs # <<>>
    /\ p.abs = d.abs
    /\ Len(p.segs) > Len(d.segs)
    /\ SubSeq(p.segs, 1, Len(d.segs)) = d.segs

\* strings.TrimPrefix(p, d + "/")
TrimDirPrefix(p, d) ==
    IF HasDirPrefix(p, d)
    THEN Path(FALSE, SubSeq(p.segs, Len(d.segs) + 1, Len(p.segs)))
    ELSE p

\* strings.TrimPrefix(p, d) for p equal to d or below d: what is left starts
\* with the separator unless it is empty
TrimPrefix(p, d) ==
    IF p = d THEN Path(FALSE, <<>>)
    ELSE IF HasDirPrefix(p, d)
         THEN Path(TRUE, SubSeq(p.segs, Len(d.segs) + 1, Len(p.segs)))
         ELSE p

\* filepath.IsAbs
IsAbs(p) == p.abs

----------------------------------------------------------------------------
(* Filesystem nodes                                                        *)

\* permission bits (abstract) and the bits os.Create and os.Symlink give
PermA == "rwxr-xr-x"
PermB == "rwx------"
PermF == "rw-r--r--"
PermCreate == "rw-rw-rw-"
PermLink == "rwxrwxrwx"
\* a directory the user may not write, and one the user may not read
PermRO == "r-xr-xr-x"
PermNR == "-wx------"

\* modification times: of the source file, of an older target, of a write
\* made during a run
TimeSrc == "t1"
TimeOld == "t0"
TimeNow == "t2"

\* own tells whether the node belongs to the user the program runs as
NoNode == [kind |-> "none", perm |-> "", size |-> 0, mtime |-> "", data |-> "", link |-> NoPath,
           own |-> TRUE]
DirNode(perm) == [kind |-> "dir", perm |-> perm, size |-> 0, mtime |-> "", data |-> "",
                  link |-> NoPath, own |-> TRUE]
FileNode(perm, size, mtime, data) ==
    [kind |-> "file", perm |-> perm, size |-> size, mtime |-> mtime, data |-> data,
     link |-> NoPath, own |-> TRUE]
LinkNode(to) == [kind |-> "link", perm |-> PermLink, size |-> 0, mtime |-> "", data |-> "",
                 link |-> to, own |-> TRUE]
\* a node that is neither directory, regular file nor symbolic link (a fifo)
OtherNode(perm) == [kind |-> "other", perm |-> perm, size |-> 0, mtime |-> "", data |-> "",
                    link |-> NoPath, own |-> TRUE]

\* os.FileInfo.Mode(): type bits and permission bits
Mode(n) == <<n.kind, n.perm>>
IsDir(n) == n.kind = "dir"
IsRegular(n) == n.kind = "file"
IsSymlink(n) == n.kind = "link"

\* the location a path string names, the working directory being the root
LocOf(p) == CleanSegs(TRUE, <<>>, p.segs)

NodeAt(fs, loc) ==
    IF loc = <<>> THEN DirNode(PermA)
    ELSE IF loc \in DOMAIN fs THEN fs[loc] ELSE NoNode

\* Path resolution as the kernel and filepath.EvalSymlinks perform it: dest
\* is the part resolved so far, rest the components still to walk, follow
\* tells whether a symbolic link in the last component is followed.
RECURSIVE Resolve(_, _, _, _, _)
ResolveStep(fs, dest, rest, follow, fuel) ==
    IF rest = <<>>
    THEN [err |-> "ok", path |-> dest, node |-> NodeAt(fs, LocOf(dest)), last |-> TRUE]
    ELSE LET c == Head(rest)
             r == Tail(rest)
         IN  IF c = "." THEN Resolve(fs, dest, r, follow, fuel)
             ELSE IF c = ".."
                  THEN Resolve(fs, Clean(Path(dest.abs, Append(dest.segs, ".."))), r, follow, fuel)
                  ELSE LET d2 == Path(dest.abs, Append(dest.segs, c))
                           n == NodeAt(fs, LocOf(d2))
                       IN  IF n.kind = "none"
                           THEN [err |-> "enoent", path |-> d2, node |-> n, last |-> (r = <<>>)]
                           ELSE IF n.kind = "link" /\ (r # <<>> \/ follow)
                                THEN IF fuel = 0
                                     THEN [err |-> "eloop", path |-> d2, node |-> n, last |-> FALSE]
                                     ELSE Resolve(fs,
                                                  IF n.link.abs THEN Path(TRUE, <<>>) ELSE dest,
                                                  n.link.segs \o r, follow, fuel - 1)
                                ELSE IF r # <<>> /\ n.kind # "dir"
                                     THEN [err |-> "enotdir", path |-> d2, node |-> n, last |-> FALSE]
                                     ELSE Resolve(fs, d2, r, follow, fuel)
Resolve(fs, dest0, rest0, follow, fuel0) ==
    CHOOSE v \in {ResolveStep(f, dest, rest, follow, fuel) :
                    f \in {fs}, dest \in {dest0}, rest \in {rest0}, fuel \in {fuel0}} : TRUE

\* os.Lstat, os.Stat
Lstat(fs, p) == Resolve(fs, Path(p.abs, <<>>), p.segs, FALSE, MaxLinks)
Stat(fs, p) == Resolve(fs, Path(p.abs, <<>>), p.segs, TRUE, MaxLinks)
\* os.IsNotExist(err)
IsNotExist(err) == err = "enoent"

\* filepath.EvalSymlinks: the path with every link resolved, or an error
EvalSymlinks(fs, p) ==
    LET r == Stat(fs, p)
    IN  [err |-> r.err, path |-> Clean(r.path)]

HasChild(fs, loc) ==
    \E l \in DOMAIN fs :
        /\ Len(l) > Len(loc)
        /\ SubSeq(l, 1, Len(loc)) = loc
        /\ fs[l].kind # "none"

Put(fs, loc, n) == [fs EXCEPT ![loc] = n]

\* an entry may be added to or removed from the directory that holds loc
CanWrite(fs, loc) == NodeAt(fs, Front(loc)).perm # PermRO

\* mkdir(2)
Mkdir(fs, p, perm) ==
    LET r == Lstat(fs, p)
    IN  IF r.err = "ok" THEN [err |-> "eexist", fs |-> fs]
        ELSE IF r.err = "enoent" /\ r.last /\ LocOf(r.path) \in DOMAIN fs
             THEN IF CanWrite(fs, LocOf(r.path))
                  THEN [err |-> "ok", fs |-> Put(fs, LocOf(r.path), DirNode(perm))]
                  ELSE [err |-> "eacces", fs |-> fs]
             ELSE [err |-> r.err, fs |-> fs]

\* os.MkdirAll: nothing to do on a directory, an error on another object,
\* else the parent first and then the directory itself, every directory
\* made getting perm; losing a race for a component is not an error
RECURSIVE MkdirAll(_, _, _)
MkdirAllStep(fs, p, perm) ==
    LET st == Stat(fs, p)
    IN  IF st.err = "ok"
        THEN [err |-> IF IsDir(st.node) THEN "ok" ELSE "enotdir", fs |-> fs]
        ELSE LET up == IF Len(p.segs) > 1 THEN MkdirAll(fs, Dir(p), perm)
                       ELSE [err |-> "ok", fs |-> fs]
             IN  IF up.err # "ok" THEN up
                 ELSE LET mk == Mkdir(up.fs, p, perm)
                          ls == Lstat(up.fs, p)
                      IN  IF mk.err = "ok" THEN mk
                          ELSE IF ls.err = "ok" /\ IsDir(ls.node)
                               THEN [err |-> "ok", fs |-> up.fs]
                               ELSE mk
MkdirAll(fs, p0, perm) ==
    CHOOSE v \in {MkdirAllStep(f, p, perm) : f \in {fs}, p \in {p0}} : TRUE

\* os.Create: open for writing, created with PermCreate when missing,
\* truncated when present; a link in the last component is followed
Create(fs, p) ==
    LET r == Stat(fs, p)
        loc == LocOf(r.path)
    IN  IF r.err = "ok"
        THEN IF IsDir(r.node) THEN [err |-> "eisdir", fs |-> fs, loc |-> loc]
             ELSE [err |-> "ok", loc |-> loc,
                   fs |-> Put(fs, loc, [r.node EXCEPT !.size = 0, !.data = "", !.mtime = TimeNow])]
        ELSE IF r.err = "enoent" /\ r.last /\ loc \in DOMAIN fs
             THEN IF CanWrite(fs, loc)
                  THEN [err |-> "ok", loc |-> loc,
                        fs |-> Put(fs, loc, FileNode(PermCreate, 0, TimeNow, ""))]
                  ELSE [err |-> "eacces", fs |-> fs, loc |-> loc]
             ELSE [err |-> r.err, fs |-> fs, loc |-> loc]

\* os.Open for reading
Open(fs, p) ==
    LET r == Stat(fs, p)
    IN  [err |-> r.err, loc |-> LocOf(r.path), node |-> r.node]

\* io.Copy from the open source s to the open target at loc
Copy(fs, loc, s) ==
    IF IsDir(s) THEN [err |-> "eisdir", n |-> 0, fs |-> fs]
    ELSE [err |-> "ok", n |-> s.size,
          fs |-> Put(fs, loc, [fs[loc] EXCEPT !.size = s.size, !.data = s.data, !.mtime = TimeNow])]

\* os.Chtimes, os.Chmod: both follow a link in the last component and are
\* refused on a node of another user
Chtimes(fs, p, mt) ==
    LET r == Stat(fs, p)
    IN  IF r.err = "ok" /\ LocOf(r.path) \in DOMAIN fs /\ r.node.own
        THEN [err |-> "ok", fs |-> Put(fs, LocOf(r.path), [r.node EXCEPT !.mtime = mt])]
        ELSE [err |-> IF r.err = "ok" THEN "eperm" ELSE r.err, fs |-> fs]

Chmod(fs, p, perm) ==
    LET r == Stat(fs, p)
    IN  IF r.err = "ok" /\ LocOf(r.path) \in DOMAIN fs /\ r.node.own
        THEN [err |-> "ok", fs |-> Put(fs, LocOf(r.path), [r.node EXCEPT !.perm = perm])]
        ELSE [err |-> IF r.err = "ok" THEN "eperm" ELSE r.err, fs |-> fs]

\* os.Remove: unlink, or rmdir of an empty directory
Remove(fs, p) ==
    LET r == Lstat(fs, p)
        loc == LocOf(r.path)
    IN  IF r.err # "ok" THEN [err |-> r.err, fs |-> fs]
        ELSE IF loc \notin DOMAIN fs THEN [err |-> "eperm", fs |-> fs]
        ELSE IF ~CanWrite(fs, loc) THEN [err |-> "eacces", fs |-> fs]
        ELSE IF IsDir(r.node) /\ HasChild(fs, loc) THEN [err |-> "enotempty", fs |-> fs]
        ELSE [err |-> "ok", fs |-> Put(fs, loc, NoNode)]

\* os.Symlink(to, p)
Symlink(fs, to, p) ==
    LET r == Lstat(fs, p)
    IN  IF r.err = "ok" THEN [err |-> "eexist", fs |-> fs]
        ELSE IF r.err = "enoent" /\ r.last /\ LocOf(r.path) \in DOMAIN fs
             THEN IF CanWrite(fs, LocOf(r.path))
                  THEN [err |-> "ok", fs |-> Put(fs, LocOf(r.path), LinkNode(to))]
                  ELSE [err |-> "eacces", fs |-> fs]
             ELSE [err |-> r.err, fs |-> fs]

----------------------------------------------------------------------------
(* State                                                                   *)

VARIABLES
    args,      \* the cleaned command line, [src, tgt] path strings, with the
               \* filepath.Walk of the library the program is built with
    fs,        \* the filesystem
    fs0,       \* the filesystem when the first run started
    run,       \* number of the current run
    mainPc,    \* position of main
    dp,        \* parseSrcDirs: [pc, idx]
    fp,        \* parseSrcFiles: [pc, idx]
    dw,        \* syncDirLayout workers: [pc, entry]
    ck,        \* checkTgt workers: [pc, entry, info]
    cl,        \* position of chanCloser
    sy,        \* syncFiles workers: [pc, entry, n, numBytes, fileCount]
    wg,        \* the WaitGroup counters: [dirSync, done]
    chans,     \* number of close calls on each channel: [dirList, fileList, updateList]
    total,     \* main's accumulators: [numFiles, numBytes, i]
    panicked,  \* a goroutine sent on a closed channel
    gh         \* history of the current run: [fwd, chk, ops, sent, fail, cnt, rcvd]

vars == <<args, fs, fs0, run, mainPc, dp, fp, dw, ck, cl, sy, wg, chans, total, panicked, gh>>

\* the source tree in the order filepath.Walk visits it, relative to the root
WalkOrder == << <<>>, <<"a">>, <<"a", "f">>, <<"l">> >>
FileRels == {<<"a", "f">>, <<"l">>}
DirRels == {<<>>, <<"a">>}

\* fileInfo (syngo.go:29-33)
NoEntry == [info |-> NoNode, path |-> NoPath, linkPath |-> NoPath]

SrcPath(rel) == Path(args.src.abs, args.src.segs \o rel)

\* filepath.Walk reaches rel when it exists and everything above it is a
\* directory whose entries can be read (Walk does not descend through
\* links; a directory that cannot be read is reported a second time with
\* the error, for which the callbacks return at once)
Visited(f, rel) ==
    /\ \A k \in 0..(Len(rel) - 1) :
           LET r == Lstat(f, SrcPath(SubSeq(rel, 1, k)))
           IN  r.err = "ok" /\ IsDir(r.node) /\ r.node.perm # PermNR
    /\ Lstat(f, SrcPath(rel)).err = "ok"

\* filepath.Walk with a directory that cannot be read: older libraries call
\* the callback for the directory and then once more with the error
\* ("pre"), newer ones read the directory first and call it once, with the
\* error ("read")
WalkKinds == {"pre", "read"}

\* parseSrcDirs' callback (syncSrc.go:16-27): the entry sent for rel
DirEmits(f, rel) ==
    /\ Visited(f, rel)
    /\ LET i == Lstat(f, SrcPath(rel)).node
       IN  IsDir(i) /\ (i.perm = PermNR => args.walk = "pre")
DirEntry(f, rel) ==
    [info |-> Lstat(f, SrcPath(rel)).node,
     path |-> TrimPrefix(SrcPath(rel), args.src),
     linkPath |-> NoPath]

\* parseSrcFiles' callback (syncSrc.go:37-62)
RelSymPath(symp, p) ==
    IF IsAbs(symp) THEN symp ELSE TrimDirPrefix(symp, Dir(p))

FileEmits(f, rel) ==
    /\ Visited(f, rel)
    /\ LET i == Lstat(f, SrcPath(rel)).node
       IN  /\ ~IsDir(i)
           /\ IsSymlink(i) => EvalSymlinks(f, SrcPath(rel)).err = "ok"
FileEntry(f, rel) ==
    LET p == SrcPath(rel)
        i == Lstat(f, p).node
    IN  [info |-> i,
         path |-> TrimDirPrefix(p, args.src),
         linkPath |-> IF IsSymlink(i) THEN RelSymPath(EvalSymlinks(f, p).path, p) ELSE NoPath]

\* index of the next node at or after i for which the callback sends
RECURSIVE NextDir(_, _)
NextDirStep(f, i) ==
    IF i > Len(WalkOrder) \/ DirEmits(f, WalkOrder[i]) THEN i ELSE NextDir(f, i + 1)
NextDir(f, i0) == CHOOSE v \in {NextDirStep(f, i) : i \in {i0}} : TRUE
RECURSIVE NextFile(_, _)
NextFileStep(f, i) ==
    IF i > Len(WalkOrder) \/ FileEmits(f, WalkOrder[i]) THEN i ELSE NextFile(f, i + 1)
NextFile(f, i0) == CHOOSE v \in {NextFileStep(f, i) : i \in {i0}} : TRUE

TgtPathOf(e) == Join(args.tgt, e.path)
SrcPathOf(e) == Join(args.src, e.path)

IdleWorker == [pc |-> "idle", entry |-> NoEntry]
IdleChecker == [pc |-> "idle", entry |-> NoEntry, info |-> NoNode]
IdleSyncer == [pc |-> "idle", entry |-> NoEntry, n |-> 0, numBytes |-> 0, fileCount |-> 0]
\* the history of a run: the sends on updateList per path, the decisions of
\* the checkers, the number of changes made to the target, the sends on
\* syncDone per worker, the steps that failed, the increments of fileCount
\* per path and the receives from each channel per path
ChanNames == {"dirList", "fileList", "updateList"}
NoHistory == [fwd |-> [r \in FileRels |-> 0], chk |-> {}, ops |-> 0,
              sent |-> [s \in Syncers |-> 0],
              fail |-> {},
              cnt |-> [r \in FileRels |-> 0],
              rcvd |-> [c \in ChanNames |-> [r \in DirRels \cup FileRels |-> 0]]]
\* the number of workers of the pool S that took something in the step
\* from old to new
Receivers(old, new, S) == Cardinality({x \in S : old[x] # new[x]})
\* the history h after step failed with err for path rel in worker by
Failed(h, rel, step, err, by) ==
    IF err = "ok" THEN h
    ELSE [h EXCEPT !.fail = @ \cup {[path |-> rel, step |-> step, err |-> err, by |-> by]}]

----------------------------------------------------------------------------
(* Initial states: the command line and the two trees                      *)

SrcRoot == <<"src">>
TgtRoot == <<"tgt">>
TgtRels == {<<>>, <<"a">>, <<"a", "f">>, <<"l">>, <<"x">>}
Locs == {<<"x">>} \cup {SrcRoot \o r : r \in DirRels \cup FileRels}
                  \cup {TgtRoot \o r : r \in TgtRels}

SrcFile == FileNode(PermF, 2, TimeSrc, "new")
\* what the source holds at l: a link (upwards out of the tree, absolute,
\* into the tree, dangling) or an object of another kind
SrcLinks == {LinkNode(Path(FALSE, <<"..", "x">>)), LinkNode(Path(TRUE, <<"x">>)),
             LinkNode(Path(FALSE, <<"a", "f">>)), LinkNode(Path(FALSE, <<"gone">>)),
             OtherNode(PermF)}

EmptyFs == [loc \in Locs |-> NoNode]
SrcTree(l) ==
    (<<"x">> :> FileNode(PermF, 1, TimeOld, "ext")) @@
    (SrcRoot :> DirNode(PermA)) @@
    (SrcRoot \o <<"a">> :> DirNode(PermB)) @@
    (SrcRoot \o <<"a", "f">> :> SrcFile) @@
    (SrcRoot \o <<"l">> :> l) @@ EmptyFs

\* the target a faultless run leaves for the source tree f
SyncedLink(f, src) ==
    LET p == Path(src.abs, src.segs \o <<"l">>)
        e == EvalSymlinks(f, p)
    IN  IF IsSymlink(f[SrcRoot \o <<"l">>]) /\ e.err = "ok"
        THEN LinkNode(RelSymPath(e.path, p)) ELSE NoNode
KeepFile == FileNode(PermF, 1, TimeOld, "keep")
TgtSynced(f, src) ==
    (<<>> :> DirNode(PermA)) @@ (<<"a">> :> DirNode(PermB)) @@ (<<"a", "f">> :> SrcFile) @@
    (<<"l">> :> SyncedLink(f, src)) @@ (<<"x">> :> KeepFile)
TgtEmpty == [r \in TgtRels |-> NoNode]

\* target trees: absent, an empty root, the synced tree, and the synced
\* tree with x missing or with other permission bits on a
TreesCommon(b) ==
    {TgtEmpty, b,
     [TgtEmpty EXCEPT ![<<>>] = DirNode(PermA)],
     [b EXCEPT ![<<"x">>] = NoNode],
     [b EXCEPT ![<<"a">>] = DirNode(PermA)]}
\* target trees with a file in the place of a directory
TreesBlocked(b) ==
    {[TgtEmpty EXCEPT ![<<>>] = KeepFile],
     [b EXCEPT ![<<"a">>] = KeepFile, ![<<"a", "f">>] = NoNode]}
\* the synced tree with another object at the target path of the file
TreesFile(b) ==
    {[b EXCEPT ![<<"a", "f">>] = n] :
        n \in {NoNode, FileNode(PermF, 2, TimeOld, "old"),
               FileNode(PermF, 1, TimeSrc, "o"),
               FileNode(PermB, 2, TimeSrc, "new"),
               LinkNode(Path(FALSE, <<"..", "x">>)),
               DirNode(PermB)}}
\* the synced tree with another object at the target path of the link
TreesLink(b) ==
    {[b EXCEPT ![<<"l">>] = n] :
        n \in {NoNode, KeepFile,
               LinkNode(Path(FALSE, <<"x">>)),
               LinkNode(Path(TRUE, <<"x">>)),
               LinkNode(Path(FALSE, <<"a", "f">>)),
               LinkNode(Path(FALSE, <<"gone">>))}}

Overlay(f, t) == [loc \in Locs |->
                    IF \E r \in TgtRels : loc = TgtRoot \o r
                    THEN t[SubSeq(loc, 2, Len(loc))] ELSE f[loc]]

ArgsOf(sa, ta) == [src |-> Path(sa, SrcRoot), tgt |-> Path(ta, TgtRoot), walk |-> "pre"]
Scenario(a, l, t) == [args |-> a, fs |-> Overlay(SrcTree(l), t)]

\* the command lines and trees a run starts from: both arguments relative
\* with every tree, the other forms of the arguments with the absent and the
\* synced target, and the same path given twice
Scenarios ==
    LET rel == ArgsOf(FALSE, FALSE)
        B(a, l) == TgtSynced(SrcTree(l), a.src)
    IN  UNION {{Scenario(rel, l, t) : t \in TreesCommon(B(rel, l))} : l \in SrcLinks}
        \cup UNION {{Scenario(rel, l, t) : t \in TreesLink(B(rel, l))} : l \in SrcLinks}
        \cup UNION {{Scenario(rel, l, t) : t \in TreesFile(B(rel, l))} :
                        l \in {LinkNode(Path(FALSE, <<"..", "x">>)),
                               LinkNode(Path(FALSE, <<"a", "f">>))}}
        \cup UNION {UNION {{Scenario(a, l, t) : t \in {TgtEmpty, B(a, l)}} :
                                l \in SrcLinks \ {OtherNode(PermF)}} :
                        a \in {ArgsOf(TRUE, TRUE), ArgsOf(FALSE, TRUE), ArgsOf(TRUE, FALSE)}}
        \cup {Scenario([rel EXCEPT !.tgt = rel.src], OtherNode(PermF), TgtEmpty)}

InitFrom(S) ==
    /\ \E sc \in S :
         /\ args = sc.args
         /\ fs = sc.fs
    /\ fs0 = fs
    /\ run = 1
    /\ mainPc = "checkInput"
    /\ dp = [pc |-> "idle", idx |-> 1]
    /\ fp = [pc |-> "idle", idx |-> 1]
    /\ dw = [w \in Checkers |-> IdleWorker]
    /\ ck = [c \in Checkers |-> IdleChecker]
    /\ cl = "idle"
    /\ sy = [s \in Syncers |-> IdleSyncer]
    /\ wg = [dirSync |-> 0, done |-> 0]
    /\ chans = [dirList |-> 0, fileList |-> 0, updateList |-> 0]
    /\ total = [numFiles |-> 0, numBytes |-> 0, i |-> 0]
    /\ panicked = FALSE
    /\ gh = NoHistory

Init == InitFrom(Scenarios)

----------------------------------------------------------------------------
(* main (syngo.go:35-94)                                                   *)

\* checkInput without the test for a directory
checkInputAnyKind(f, src, dst) ==
    LET fi == Stat(f, src)
    IN  IF src = dst THEN "identical"
        ELSE IF fi.err # "ok" THEN fi.err
        ELSE "ok"

\* checkInput (syngo.go:105-119)
checkInput(f, src, dst) ==
    LET fi == Stat(f, src)
    IN  IF src = dst THEN "identical"
        ELSE IF fi.err # "ok" THEN fi.err
        ELSE IF ~IsDir(fi.node) THEN "notdir"
        ELSE "ok"

\* syngo.go:47-49
CheckInput ==
    /\ mainPc = "checkInput"
    /\ mainPc' = IF checkInput(fs, args.src, args.tgt) = "ok" THEN "startDirs" ELSE "fatal"
    /\ UNCHANGED <<args, fs, fs0, run, dp, fp, dw, ck, cl, sy, wg, chans, total, panicked, gh>>

\* syngo.go:53-60: dirList is made, parseSrcDirs and the workers are started
StartDirs ==
    /\ mainPc = "startDirs"
    /\ mainPc' = "waitDirs"
    /\ dp' = [pc |-> "walk", idx |-> 1]
    /\ wg' = [wg EXCEPT !.dirSync = numCheckers]
    /\ dw' = [w \in Checkers |-> [pc |-> "recv", entry |-> NoEntry]]
    /\ UNCHANGED <<args, fs, fs0, run, fp, ck, cl, sy, chans, total, panicked, gh>>

\* DirBarrier going on while one worker has not called Done
DirBarrierEarly ==
    /\ mainPc = "waitDirs"
    /\ wg.dirSync <= 1
    /\ mainPc' = "startFiles"
    /\ UNCHANGED <<args, fs, fs0, run, dp, fp, dw, ck, cl, sy, wg, chans, total, panicked, gh>>

\* syngo.go:61: dirSync.Wait()
DirBarrier ==
    /\ mainPc = "waitDirs"
    /\ wg.dirSync = 0
    /\ mainPc' = "startFiles"
    /\ UNCHANGED <<args, fs, fs0, run, dp, fp, dw, ck, cl, sy, wg, chans, total, panicked, gh>>

\* StartFiles without the wait for the workers of the directory phase
StartFilesNoWait ==
    /\ mainPc \in {"waitDirs", "startFiles"}
    /\ mainPc' = "collect"
    /\ fp' = [pc |-> "walk", idx |-> 1]
    /\ wg' = [wg EXCEPT !.done = numCheckers]
    /\ ck' = [c \in Checkers |-> [IdleChecker EXCEPT !.pc = "recv"]]
    /\ cl' = "wait"
    /\ sy' = [s \in Syncers |-> [IdleSyncer EXCEPT !.pc = "recv"]]
    /\ UNCHANGED <<args, fs, fs0, run, dp, dw, chans, total, panicked, gh>>

\* syngo.go:64-80: the channels of the file phase are made, parseSrcFiles,
\* the checkers, chanCloser and the syncers are started
StartFiles ==
    /\ mainPc = "startFiles"
    /\ mainPc' = "collect"
    /\ fp' = [pc |-> "walk", idx |-> 1]
    /\ wg' = [wg EXCEPT !.done = numCheckers]
    /\ ck' = [c \in Checkers |-> [IdleChecker EXCEPT !.pc = "recv"]]
    /\ cl' = "wait"
    /\ sy' = [s \in Syncers |-> [IdleSyncer EXCEPT !.pc = "recv"]]
    /\ UNCHANGED <<args, fs, fs0, run, dp, dw, chans, total, panicked, gh>>

\* AddStats keeping the bytes of the last worker only
AddStatsLastBytes(t, d) ==
    [t EXCEPT !.numFiles = @ + d.fileCount, !.numBytes = d.numBytes, !.i = @ + 1]

\* syngo.go:82-87: the sum main keeps
AddStats(t, d) ==
    [t EXCEPT !.numFiles = @ + d.fileCount, !.numBytes = @ + d.numBytes, !.i = @ + 1]

\* syngo.go:83-87 with syncTgt.go:54: one receive from syncDone, which is
\* the send of worker s
MainRecv(s) ==
    /\ mainPc = "collect"
    /\ total.i < numSyncers
    /\ sy[s].pc = "send"
    /\ total' = AddStats(total, sy[s])
    /\ sy' = [sy EXCEPT ![s].pc = "done"]
    /\ gh' = [gh EXCEPT !.sent[s] = @ + 1]
    /\ UNCHANGED <<args, fs, fs0, run, mainPc, dp, fp, dw, ck, cl, wg, chans, panicked>>

\* syngo.go:88-93: the loop is over, the totals are printed
Report ==
    /\ mainPc = "collect"
    /\ total.i = numSyncers
    /\ mainPc' = "done"
    /\ UNCHANGED <<args, fs, fs0, run, dp, fp, dw, ck, cl, sy, wg, chans, total, panicked, gh>>

\* the program is started again on the trees the previous run left
Restart ==
    /\ mainPc = "done"
    /\ run < MaxRuns
    /\ run' = run + 1
    /\ mainPc' = "checkInput"
    /\ dp' = [pc |-> "idle", idx |-> 1]
    /\ fp' = [pc |-> "idle", idx |-> 1]
    /\ dw' = [w \in Checkers |-> IdleWorker]
    /\ ck' = [c \in Checkers |-> IdleChecker]
    /\ cl' = "idle"
    /\ sy' = [s \in Syncers |-> IdleSyncer]
    /\ wg' = [dirSync |-> 0, done |-> 0]
    /\ chans' = [dirList |-> 0, fileList |-> 0, updateList |-> 0]
    /\ total' = [numFiles |-> 0, numBytes |-> 0, i |-> 0]
    /\ gh' = NoHistory
    /\ UNCHANGED <<args, fs, fs0, panicked>>

----------------------------------------------------------------------------
(* parseSrcDirs and syncDirLayout                                          *)

\* DirSend with the entry going to every worker that waits on dirList
DirSendAll(w) ==
    /\ dp.pc = "walk"
    /\ chans.dirList = 0
    /\ dw[w].pc = "recv"
    /\ LET j == NextDir(fs, dp.idx)
       IN  /\ j <= Len(WalkOrder)
           /\ dp' = [dp EXCEPT !.idx = j + 1]
           /\ dw' = [v \in Checkers |->
                        IF dw[v].pc = "recv"
                        THEN [pc |-> "lstat", entry |-> DirEntry(fs, WalkOrder[j])]
                        ELSE dw[v]]
           /\ gh' = [gh EXCEPT !.rcvd["dirList"][WalkOrder[j]] =
                                    @ + Receivers(dw, dw', Checkers)]
    /\ UNCHANGED <<args, fs, fs0, run, mainPc, fp, ck, cl, sy, wg, chans, total, panicked>>

\* syncSrc.go:24 with syncTgt.go:61: the send of the next directory, which
\* is the receive of worker w
DirSend(w) ==
    /\ dp.pc = "walk"
    /\ chans.dirList = 0
    /\ dw[w].pc = "recv"
    /\ LET j == NextDir(fs, dp.idx)
       IN  /\ j <= Len(WalkOrder)
           /\ dp' = [dp EXCEPT !.idx = j + 1]
           /\ dw' = [dw EXCEPT ![w] = [pc |-> "lstat", entry |-> DirEntry(fs, WalkOrder[j])]]
           /\ gh' = [gh EXCEPT !.rcvd["dirList"][WalkOrder[j]] =
                                    @ + Receivers(dw, dw', Checkers)]
    /\ UNCHANGED <<args, fs, fs0, run, mainPc, fp, ck, cl, sy, wg, chans, total, panicked>>

\* DirClose closing dirList as soon as one directory was sent
DirCloseEarly ==
    /\ dp.pc = "walk"
    /\ dp.idx > 1
    /\ dp' = [dp EXCEPT !.pc = "done"]
    /\ chans' = [chans EXCEPT !.dirList = @ + 1]
    /\ UNCHANGED <<args, fs, fs0, run, mainPc, fp, dw, ck, cl, sy, wg, total, panicked, gh>>

\* syncSrc.go:28: the walk is over, dirList is closed
DirClose ==
    /\ dp.pc = "walk"
    /\ NextDir(fs, dp.idx) > Len(WalkOrder)
    /\ dp' = [dp EXCEPT !.pc = "done"]
    /\ chans' = [chans EXCEPT !.dirList = @ + 1]
    /\ UNCHANGED <<args, fs, fs0, run, mainPc, fp, dw, ck, cl, sy, wg, total, panicked, gh>>

\* syncTgt.go:62-64: os.Lstat of the target path
DwLstat(w) ==
    /\ dw[w].pc = "lstat"
    /\ LET r == Lstat(fs, TgtPathOf(dw[w].entry))
       IN  dw' = [dw EXCEPT ![w].pc = IF r.err # "ok" /\ IsNotExist(r.err)
                                      THEN "mkdir" ELSE "recv"]
    /\ UNCHANGED <<args, fs, fs0, run, mainPc, dp, fp, ck, cl, sy, wg, chans, total, panicked, gh>>

\* syncTgt.go:65-68: os.MkdirAll with the mode of the source directory; an
\* error is logged
DwMkdirAll(w) ==
    /\ dw[w].pc = "mkdir"
    /\ LET m == MkdirAll(fs, TgtPathOf(dw[w].entry), dw[w].entry.info.perm)
       IN  /\ fs' = m.fs
           /\ gh' = Failed([gh EXCEPT !.ops = IF m.fs # fs THEN @ + 1 ELSE @],
                           dw[w].entry.path.segs, "mkdirall", m.err, w)
    /\ dw' = [dw EXCEPT ![w].pc = "recv"]
    /\ UNCHANGED <<args, fs0, run, mainPc, dp, fp, ck, cl, sy, wg, chans, total, panicked>>

\* syncTgt.go:61,71: dirList is closed and empty, the loop ends, done.Done()
DwDone(w) ==
    /\ dw[w].pc = "recv"
    /\ chans.dirList > 0
    /\ dw' = [dw EXCEPT ![w] = [pc |-> "done", entry |-> NoEntry]]
    /\ wg' = [wg EXCEPT !.dirSync = @ - 1]
    /\ UNCHANGED <<args, fs, fs0, run, mainPc, dp, fp, ck, cl, sy, chans, total, panicked, gh>>

----------------------------------------------------------------------------
(* parseSrcFiles, checkTgt and chanCloser                                  *)

\* syncSrc.go:59 with syncTgt.go:78: the send of the next file or link,
\* which is the receive of checker c
FileSend(c) ==
    /\ fp.pc = "walk"
    /\ chans.fileList = 0
    /\ ck[c].pc = "recv"
    /\ LET j == NextFile(fs, fp.idx)
       IN  /\ j <= Len(WalkOrder)
           /\ fp' = [fp EXCEPT !.idx = j + 1]
           /\ ck' = [ck EXCEPT ![c] = [pc |-> "lstat", entry |-> FileEntry(fs, WalkOrder[j]),
                                       info |-> NoNode]]
           /\ gh' = [gh EXCEPT !.rcvd["fileList"][WalkOrder[j]] =
                                    @ + Receivers(ck, ck', Checkers)]
    /\ UNCHANGED <<args, fs, fs0, run, mainPc, dp, dw, cl, sy, wg, chans, total, panicked>>

\* syncSrc.go:63
FileClose ==
    /\ fp.pc = "walk"
    /\ NextFile(fs, fp.idx) > Len(WalkOrder)
    /\ fp' = [fp EXCEPT !.pc = "done"]
    /\ chans' = [chans EXCEPT !.fileList = @ + 1]
    /\ UNCHANGED <<args, fs, fs0, run, mainPc, dp, dw, ck, cl, sy, wg, total, panicked, gh>>

\* Differs without the modification time
DiffersNoTime(s, t) ==
    \/ s.size # t.size
    \/ Mode(s) # Mode(t)

\* syncTgt.go:110-112: the comparison of a source file with its target
Differs(s, t) ==
    \/ s.size # t.size
    \/ Mode(s) # Mode(t)
    \/ s.mtime # t.mtime

\* what a checker found and decided for e: at names the call whose result
\* r is (the Lstat of the target path or the resolution of the target link)
Decision(e, at, r, fwd) ==
    [path |-> e.path.segs, src |-> e.info, at |-> at, err |-> r.err, tgt |-> r.node,
     fwd |-> fwd]

\* AfterLstat forwarding the entry whatever the error of Lstat is
AfterLstatAnyError(e, r) ==
    IF r.err # "ok"
    THEN "send"
    ELSE IF IsSymlink(e.info)
         THEN IF IsSymlink(r.node) THEN "eval" ELSE "send"
         ELSE IF Differs(e.info, r.node) THEN "send" ELSE "recv"

\* syncTgt.go:82-115 without the link resolution: where checkTgt goes after
\* the Lstat r of the target path of e
AfterLstat(e, r) ==
    IF r.err # "ok"
    THEN IF IsNotExist(r.err) THEN "send" ELSE "recv"
    ELSE IF IsSymlink(e.info)
         THEN IF IsSymlink(r.node) THEN "eval" ELSE "send"
         ELSE IF Differs(e.info, r.node) THEN "send" ELSE "recv"

\* syncTgt.go:80-92,106-115: os.Lstat of the target path and the decision
CkLstat(c) ==
    /\ ck[c].pc = "lstat"
    /\ LET e == ck[c].entry
           r == Lstat(fs, TgtPathOf(e))
           to == AfterLstat(e, r)
       IN  /\ ck' = [ck EXCEPT ![c].pc = to, ![c].info = r.node]
           /\ gh' = IF to = "eval" THEN gh
                    ELSE [gh EXCEPT !.chk = @ \cup {Decision(e, "lstat", r, to = "send")}]
    /\ UNCHANGED <<args, fs, fs0, run, mainPc, dp, fp, dw, cl, sy, wg, chans, total, panicked>>

\* AfterEval forwarding the entry when the target link does not resolve
AfterEvalForwardOnError(e, path, symp) ==
    IF symp.err # "ok" THEN "send"
    ELSE IF RelSymPath(symp.path, path) # e.linkPath THEN "send" ELSE "recv"

\* syncTgt.go:95-105: where checkTgt goes after the resolution symp of the
\* target link at path: an error ends the entry, else the resolved path is
\* compared with linkPath
AfterEval(e, path, symp) ==
    IF symp.err # "ok" THEN "recv"
    ELSE IF RelSymPath(symp.path, path) # e.linkPath THEN "send" ELSE "recv"

\* CkEval comparing the resolved path as it is, not made relative to the
\* directory of the link
CkEvalRaw(c) ==
    /\ ck[c].pc = "eval"
    /\ LET e == ck[c].entry
           path == TgtPathOf(e)
           symp == EvalSymlinks(fs, path)
           to == IF symp.err # "ok" THEN "recv"
                 ELSE IF symp.path # e.linkPath THEN "send" ELSE "recv"
       IN  /\ ck' = [ck EXCEPT ![c].pc = to]
           /\ gh' = [gh EXCEPT !.chk = @ \cup
                        {Decision(e, "eval", [err |-> symp.err, node |-> ck[c].info],
                                  to = "send")}]
    /\ UNCHANGED <<args, fs, fs0, run, mainPc, dp, fp, dw, cl, sy, wg, chans, total, panicked>>

\* syncTgt.go:94-105: the target link is resolved and compared with linkPath
CkEval(c) ==
    /\ ck[c].pc = "eval"
    /\ LET e == ck[c].entry
           path == TgtPathOf(e)
           symp == EvalSymlinks(fs, path)
           to == AfterEval(e, path, symp)
       IN  /\ ck' = [ck EXCEPT ![c].pc = to]
           /\ gh' = [gh EXCEPT !.chk = @ \cup
                        {Decision(e, "eval", [err |-> symp.err, node |-> ck[c].info],
                                  to = "send")}]
    /\ UNCHANGED <<args, fs, fs0, run, mainPc, dp, fp, dw, cl, sy, wg, chans, total, panicked>>

\* Dispatch taking everything that is not a link for a regular file
DispatchAsFile(e) ==
    IF IsSymlink(e.info) THEN "unlink" ELSE "create"

\* syncTgt.go:25-51: the branch syncFiles takes for a received entry
Dispatch(e) ==
    IF IsRegular(e.info) THEN "create"
    ELSE IF IsSymlink(e.info) THEN "unlink"
    ELSE "recv"

\* CkSend with the entry going to every syncer that waits on updateList
CkSendAll(c) ==
    /\ ck[c].pc = "send"
    /\ ~panicked
    /\ IF chans.updateList > 0
       THEN /\ panicked' = TRUE
            /\ UNCHANGED <<ck, sy, gh>>
       ELSE /\ \E s \in Syncers : sy[s].pc = "recv"
            /\ sy' = [s \in Syncers |->
                        IF sy[s].pc = "recv"
                        THEN [sy[s] EXCEPT !.pc = Dispatch(ck[c].entry), !.entry = ck[c].entry]
                        ELSE sy[s]]
            /\ ck' = [ck EXCEPT ![c].pc = "recv"]
            /\ gh' = [gh EXCEPT !.fwd[ck[c].entry.path.segs] = @ + 1,
                                !.rcvd["updateList"][ck[c].entry.path.segs] =
                                    @ + Receivers(sy, sy', Syncers)]
            /\ UNCHANGED panicked
    /\ UNCHANGED <<args, fs, fs0, run, mainPc, dp, fp, dw, cl, wg, chans, total>>

\* syncTgt.go:84,104,107,113 with syncTgt.go:21: the send on updateList,
\* which is the receive of syncer s; a send on a closed channel panics
CkSend(c) ==
    /\ ck[c].pc = "send"
    /\ ~panicked
    /\ IF chans.updateList > 0
       THEN /\ panicked' = TRUE
            /\ UNCHANGED <<ck, sy, gh>>
       ELSE /\ \E s \in Syncers :
                 /\ sy[s].pc = "recv"
                 /\ sy' = [sy EXCEPT ![s].pc = Dispatch(ck[c].entry),
                                     ![s].entry = ck[c].entry]
            /\ ck' = [ck EXCEPT ![c].pc = "recv"]
            /\ gh' = [gh EXCEPT !.fwd[ck[c].entry.path.segs] = @ + 1,
                                !.rcvd["updateList"][ck[c].entry.path.segs] =
                                    @ + Receivers(sy, sy', Syncers)]
            /\ UNCHANGED panicked
    /\ UNCHANGED <<args, fs, fs0, run, mainPc, dp, fp, dw, cl, wg, chans, total>>

\* CkDone returning without done.Done()
CkDoneNoSignal(c) ==
    /\ ck[c].pc = "recv"
    /\ chans.fileList > 0
    /\ ck' = [ck EXCEPT ![c] = [IdleChecker EXCEPT !.pc = "done"]]
    /\ UNCHANGED <<args, fs, fs0, run, mainPc, dp, fp, dw, cl, sy, wg, chans, total, panicked, gh>>

\* syncTgt.go:78,117: fileList is closed and empty, done.Done()
CkDone(c) ==
    /\ ck[c].pc = "recv"
    /\ chans.fileList > 0
    /\ ck' = [ck EXCEPT ![c] = [IdleChecker EXCEPT !.pc = "done"]]
    /\ wg' = [wg EXCEPT !.done = @ - 1]
    /\ UNCHANGED <<args, fs, fs0, run, mainPc, dp, fp, dw, cl, sy, chans, total, panicked, gh>>

\* CloserClose not waiting for the last checker
CloserCloseEarly ==
    /\ cl = "wait"
    /\ wg.done <= 1
    /\ cl' = "done"
    /\ chans' = [chans EXCEPT !.updateList = @ + 1]
    /\ UNCHANGED <<args, fs, fs0, run, mainPc, dp, fp, dw, ck, sy, wg, total, panicked, gh>>

\* chanCloser (syncTgt.go:122-125): done.Wait(), then close(updateList)
CloserClose ==
    /\ cl = "wait"
    /\ wg.done = 0
    /\ cl' = "done"
    /\ chans' = [chans EXCEPT !.updateList = @ + 1]
    /\ UNCHANGED <<args, fs, fs0, run, mainPc, dp, fp, dw, ck, sy, wg, total, panicked, gh>>

----------------------------------------------------------------------------
(* syncFiles and syncFile                                                  *)

\* SyCreate with the worker returning when the open or the create fails
SyCreateReturn(s) ==
    /\ sy[s].pc = "create"
    /\ LET e == sy[s].entry
           o == Open(fs, SrcPathOf(e))
           c == Create(fs, TgtPathOf(e))
           cp == Copy(c.fs, c.loc, NodeAt(c.fs, o.loc))
       IN  IF o.err # "ok" \/ c.err # "ok"
           THEN /\ sy' = [sy EXCEPT ![s].pc = "send"]
                /\ gh' = Failed(Failed(gh, e.path.segs, "open", o.err, s),
                                e.path.segs, "create", c.err, s)
                /\ UNCHANGED fs
           ELSE /\ fs' = cp.fs
                /\ sy' = [sy EXCEPT ![s].pc = "attrs", ![s].n = cp.n]
                /\ gh' = Failed([gh EXCEPT !.ops = @ + 1], e.path.segs, "copy", cp.err, s)
    /\ UNCHANGED <<args, fs0, run, mainPc, dp, fp, dw, ck, cl, wg, chans, total, panicked>>

\* syncFile (syncTgt.go:129-144): the source is opened, the target created
\* or truncated, the bytes copied; a failed open or create ends the entry, a
\* failed copy is logged
SyCreate(s) ==
    /\ sy[s].pc = "create"
    /\ LET e == sy[s].entry
           o == Open(fs, SrcPathOf(e))
           c == Create(fs, TgtPathOf(e))
           cp == Copy(c.fs, c.loc, NodeAt(c.fs, o.loc))
       IN  IF o.err # "ok"
           THEN /\ sy' = [sy EXCEPT ![s].pc = "recv"]
                /\ gh' = Failed(gh, e.path.segs, "open", o.err, s)
                /\ UNCHANGED fs
           ELSE IF c.err # "ok"
           THEN /\ sy' = [sy EXCEPT ![s].pc = "recv"]
                /\ gh' = Failed(gh, e.path.segs, "create", c.err, s)
                /\ UNCHANGED fs
           ELSE /\ fs' = cp.fs
                /\ sy' = [sy EXCEPT ![s].pc = "attrs", ![s].n = cp.n]
                /\ gh' = Failed([gh EXCEPT !.ops = @ + 1], e.path.segs, "copy", cp.err, s)
    /\ UNCHANGED <<args, fs0, run, mainPc, dp, fp, dw, ck, cl, wg, chans, total, panicked>>

\* syncFile (syncTgt.go:146-155) and syncTgt.go:32,52: the times and the
\* mode of the source are applied, failures are logged; the bytes and the
\* entry are counted
SyAttrs(s) ==
    /\ sy[s].pc = "attrs"
    /\ LET e == sy[s].entry
           ct == Chtimes(fs, TgtPathOf(e), e.info.mtime)
           cm == Chmod(ct.fs, TgtPathOf(e), e.info.perm)
       IN  /\ fs' = cm.fs
           /\ gh' = [Failed(Failed(gh, e.path.segs, "chtimes", ct.err, s),
                             e.path.segs, "chmod", cm.err, s)
                        EXCEPT !.cnt[e.path.segs] = @ + 1]
    /\ sy' = [sy EXCEPT ![s].pc = "recv", ![s].numBytes = @ + sy[s].n,
                        ![s].fileCount = @ + 1]
    /\ UNCHANGED <<args, fs0, run, mainPc, dp, fp, dw, ck, cl, wg, chans, total, panicked>>

\* syncTgt.go:35-40: an object at the target path of a link is removed; a
\* failed removal ends the entry
SyUnlink(s) ==
    /\ sy[s].pc = "unlink"
    /\ LET e == sy[s].entry
           l == Lstat(fs, TgtPathOf(e))
           rm == Remove(fs, TgtPathOf(e))
       IN  IF l.err = "ok"
           THEN IF rm.err # "ok"
                THEN /\ sy' = [sy EXCEPT ![s].pc = "recv"]
                     /\ gh' = Failed(gh, e.path.segs, "remove", rm.err, s)
                     /\ UNCHANGED fs
                ELSE /\ fs' = rm.fs
                     /\ sy' = [sy EXCEPT ![s].pc = "symlink"]
                     /\ gh' = [gh EXCEPT !.ops = @ + 1]
           ELSE /\ sy' = [sy EXCEPT ![s].pc = "symlink"]
                /\ UNCHANGED <<fs, gh>>
    /\ UNCHANGED <<args, fs0, run, mainPc, dp, fp, dw, ck, cl, wg, chans, total, panicked>>

\* SySymlink counting the entry also when the link could not be made
SySymlinkCounted(s) ==
    /\ sy[s].pc = "symlink"
    /\ LET e == sy[s].entry
           ln == Symlink(fs, e.linkPath, TgtPathOf(e))
       IN  /\ fs' = ln.fs
           /\ sy' = [sy EXCEPT ![s].pc = "recv", ![s].fileCount = @ + 1]
           /\ gh' = [Failed(gh, e.path.segs, "symlink", ln.err, s)
                        EXCEPT !.ops = IF ln.err = "ok" THEN @ + 1 ELSE @,
                               !.cnt[e.path.segs] = @ + 1]
    /\ UNCHANGED <<args, fs0, run, mainPc, dp, fp, dw, ck, cl, wg, chans, total, panicked>>

\* syncTgt.go:42-47,52: the link is made; a failure ends the entry, else the
\* entry is counted
SySymlink(s) ==
    /\ sy[s].pc = "symlink"
    /\ LET e == sy[s].entry
           ln == Symlink(fs, e.linkPath, TgtPathOf(e))
       IN  IF ln.err # "ok"
           THEN /\ sy' = [sy EXCEPT ![s].pc = "recv"]
                /\ gh' = Failed(gh, e.path.segs, "symlink", ln.err, s)
                /\ UNCHANGED fs
           ELSE /\ fs' = ln.fs
                /\ sy' = [sy EXCEPT ![s].pc = "recv", ![s].fileCount = @ + 1]
                /\ gh' = [gh EXCEPT !.ops = @ + 1, !.cnt[e.path.segs] = @ + 1]
    /\ UNCHANGED <<args, fs0, run, mainPc, dp, fp, dw, ck, cl, wg, chans, total, panicked>>

\* syncTgt.go:21,54: updateList is closed and empty, the loop ends and the
\* worker is ready to send its statistics
SyExit(s) ==
    /\ sy[s].pc = "recv"
    /\ chans.updateList > 0
    /\ sy' = [sy EXCEPT ![s].pc = "send"]
    /\ UNCHANGED <<args, fs, fs0, run, mainPc, dp, fp, dw, ck, cl, wg, chans, total, panicked, gh>>

----------------------------------------------------------------------------

Next ==
    \/ CheckInput
    \/ StartDirs
    \/ DirBarrier
    \/ StartFiles
    \/ \E s \in Syncers : MainRecv(s)
    \/ Report
    \/ Restart
    \/ \E w \in Checkers : DirSend(w)
    \/ DirClose
    \/ \E w \in Checkers : DwLstat(w)
    \/ \E w \in Checkers : DwMkdirAll(w)
    \/ \E w \in Checkers : DwDone(w)
    \/ \E c \in Checkers : FileSend(c)
    \/ FileClose
    \/ \E c \in Checkers : CkLstat(c)
    \/ \E c \in Checkers : CkEval(c)
    \/ \E c \in Checkers : CkSend(c)
    \/ \E c \in Checkers : CkDone(c)
    \/ CloserClose
    \/ \E s \in Syncers : SyCreate(s)
    \/ \E s \in Syncers : SyAttrs(s)
    \/ \E s \in Syncers : SyUnlink(s)
    \/ \E s \in Syncers : SySymlink(s)
    \/ \E s \in Syncers : SyExit(s)

Spec == Init /\ [][Next]_vars

\* the runs whose completion is checked: relative arguments, a source link
\* into the tree or a dangling one, and a target that is absent, has a file
\* in the place of a directory, a directory in the place of the file or a
\* wrong link
FairScenarios ==
    LET rel == ArgsOf(FALSE, FALSE)
        B(l) == TgtSynced(SrcTree(l), rel.src)
    IN  UNION {{Scenario(rel, l, t) :
                    t \in TreesBlocked(B(l)) \cup
                          {TgtEmpty,
                           [B(l) EXCEPT ![<<"a", "f">>] = DirNode(PermB)],
                           [B(l) EXCEPT ![<<"l">>] = LinkNode(Path(FALSE, <<"x">>))]}} :
                 l \in {LinkNode(Path(FALSE, <<"a", "f">>)),
                        LinkNode(Path(FALSE, <<"gone">>))}}

FairInit == InitFrom(FairScenarios)

\* a file of another user which everybody may write
ForeignFile == [FileNode(PermCreate, 1, TimeOld, "keep") EXCEPT !.own = FALSE]
\* target trees on which a step of a worker fails: a directory in the place
\* of the file, a file of another user in the place of the file, a root
\* that may not be written with a file in the place of the link, with
\* nothing there, and with nothing in it at all, a file in the place of
\* the directory with the link missing, a link in the place of the file
\* that leads to a file in the place of the link
TreesFailing(b) ==
    {[b EXCEPT ![<<"a", "f">>] = DirNode(PermB), ![<<"l">>] = NoNode],
     [b EXCEPT ![<<"a", "f">>] = LinkNode(Path(FALSE, <<"..", "l">>)), ![<<"l">>] = KeepFile],
     [b EXCEPT ![<<"a">>] = KeepFile, ![<<"a", "f">>] = NoNode, ![<<"l">>] = NoNode],
     [b EXCEPT ![<<"a", "f">>] = ForeignFile],
     [b EXCEPT ![<<>>] = DirNode(PermRO), ![<<"l">>] = KeepFile],
     [b EXCEPT ![<<>>] = DirNode(PermRO), ![<<"l">>] = NoNode],
     [TgtEmpty EXCEPT ![<<>>] = DirNode(PermRO)]}
\* source trees: nothing at the source path, a file there, a directory a
\* that may not be read
SrcAbsent == (<<"x">> :> FileNode(PermF, 1, TimeOld, "ext")) @@ EmptyFs
SrcIsFile == (SrcRoot :> KeepFile) @@ SrcAbsent
SrcUnreadable(l) == [SrcTree(l) EXCEPT ![SrcRoot \o <<"a">>] = DirNode(PermNR)]

\* the runs in which something fails or is refused: relative arguments, a
\* source link into the tree, and the target trees on which a step fails or
\* a path is blocked; a source that is missing, is a file, is the target,
\* has a directory that cannot be read, a dangling link or a fifo; with
\* them the run on an absent target and the run that replaces a wrong link
FaultScenarios ==
    LET rel == ArgsOf(FALSE, FALSE)
        in == LinkNode(Path(FALSE, <<"a", "f">>))
        b == TgtSynced(SrcTree(in), rel.src)
    IN  {Scenario(rel, in, t) :
            t \in TreesFailing(b) \cup TreesBlocked(b) \cup
                  {TgtEmpty, [b EXCEPT ![<<"l">>] = LinkNode(Path(FALSE, <<"x">>))]}}
        \cup {[args |-> rel, fs |-> Overlay(f, b)] : f \in {SrcAbsent, SrcIsFile}}
        \cup {[args |-> [rel EXCEPT !.tgt = rel.src], fs |-> Overlay(SrcTree(in), b)]}
        \cup {[args |-> [rel EXCEPT !.walk = k], fs |-> Overlay(SrcUnreadable(in), TgtEmpty)] :
                 k \in WalkKinds}
        \cup {Scenario(rel, l, TgtEmpty) :
                 l \in {LinkNode(Path(FALSE, <<"gone">>)), OtherNode(PermF)}}

FaultInit == InitFrom(FaultScenarios)
FaultSpec == FaultInit /\ [][Next]_vars

\* the scheduler lets every goroutine that can take a step take one
FairSpec == FairInit /\ [][Next]_vars /\ WF_vars(Next)

----------------------------------------------------------------------------
(* Properties                                                              *)

RECURSIVE SumOver(_, _)
SumOver(S, f) ==
    IF S = {} THEN 0
    ELSE LET x == CHOOSE y \in S : TRUE IN f[x] + SumOver(S \ {x}, f)

FilePhaseBegun ==
    \/ fp.pc # "idle"
    \/ cl # "idle"
    \/ \E c \in Checkers : ck[c].pc # "idle"
    \/ \E s \in Syncers : sy[s].pc # "idle"
DirPhaseDrained ==
    /\ chans.dirList = 1
    /\ wg.dirSync = 0
    /\ \A w \in Checkers : dw[w].pc = "done"

\* C1: nothing of the file phase (parseSrcFiles, a checker, chanCloser, a
\* syncer) has started unless parseSrcDirs has closed dirList and every
\* syncDirLayout worker has called Done and returned.
C1_PhaseBarrier == FilePhaseBegun => DirPhaseDrained
\* a file is being copied after a directory phase that made directories
C1_Witness ==
    /\ \E s \in Syncers : sy[s].pc = "attrs"
    /\ DirPhaseDrained
    /\ fs[TgtRoot \o <<"a">>] # fs0[TgtRoot \o <<"a">>]

\* C2: updateList is closed at most once, it is closed exactly when
\* chanCloser has run, every checker has left its loop by then, and no
\* checker ever sends on the closed channel.
C2_UpdateListClosedOnce ==
    /\ chans.updateList = IF cl = "done" THEN 1 ELSE 0
    /\ chans.updateList > 0 => \A c \in Checkers : ck[c].pc = "done"
    /\ ~panicked
\* updateList is closed after both entries went through it
C2_Witness ==
    /\ chans.updateList = 1
    /\ \A r \in FileRels : gh.fwd[r] = 1

AllFinished ==
    /\ mainPc = "done"
    /\ dp.pc = "done" /\ fp.pc = "done" /\ cl = "done"
    /\ chans = [dirList |-> 1, fileList |-> 1, updateList |-> 1]
    /\ \A w \in Checkers : dw[w].pc = "done" /\ ck[w].pc = "done"
    /\ \A s \in Syncers : sy[s].pc = "done"
    /\ total.i = numSyncers

\* C3: under fair scheduling a run that has passed the input check always
\* reaches the state in which both producers have closed their channels,
\* every worker and chanCloser have returned and main has received all
\* numSyncers statistics.
C3_RunsToCompletion == (mainPc = "startDirs") ~> AllFinished
\* a finished run in which an entry failed and another one was synced
C3_Witness ==
    /\ AllFinished
    /\ \E r \in FileRels : gh.fwd[r] = 1
    /\ total.numFiles < SumOver(FileRels, gh.fwd)

WorkerFiles == [s \in Syncers |-> sy[s].fileCount]
WorkerBytes == [s \in Syncers |-> sy[s].numBytes]

\* C4: a syncer sends its statistics at most once and only after updateList
\* was closed; when main reports it has received one value from each of the
\* numSyncers workers and its totals are the sums of the workers' counters.
C4_StatsOncePerWorker ==
    /\ \A s \in Syncers :
         /\ gh.sent[s] = IF sy[s].pc = "done" THEN 1 ELSE 0
         /\ sy[s].pc \in {"send", "done"} => chans.updateList = 1
    /\ total.i = SumOver(Syncers, gh.sent)
    /\ mainPc = "done" =>
         /\ total.i = numSyncers
         /\ total.numFiles = SumOver(Syncers, WorkerFiles)
         /\ total.numBytes = SumOver(Syncers, WorkerBytes)
\* main has reported and both workers synced an entry, one of them the file
C4_Witness ==
    /\ mainPc = "done"
    /\ \A s \in Syncers : sy[s].fileCount = 1
    /\ total.numBytes = 2

----------------------------------------------------------------------------
(* End-to-end properties of a run                                          *)

SrcNode(rel) == fs[SrcRoot \o rel]
TgtLstat(rel) == Lstat(fs, Path(args.tgt.abs, args.tgt.segs \o rel))
TgtStat(rel) == Stat(fs, Path(args.tgt.abs, args.tgt.segs \o rel))
FirstRunDone == mainPc = "done" /\ run = 1

\* C5: when a run is over every directory of the source exists in the
\* target as a directory with the permission bits of the source directory.
C5_DirsMirrored ==
    mainPc = "done" =>
        \A d \in DirRels :
            LET t == TgtLstat(d)
            IN  t.err = "ok" /\ IsDir(t.node) /\ t.node.perm = SrcNode(d).perm

\* the target of rel was missing or differed from the source file in size,
\* mode or modification time when the first run started
StaleAtStart(rel) ==
    LET t == Lstat(fs0, Path(args.tgt.abs, args.tgt.segs \o rel))
    IN  \/ t.err # "ok"
        \/ t.node.size # SrcNode(rel).size
        \/ Mode(t.node) # Mode(SrcNode(rel))
        \/ t.node.mtime # SrcNode(rel).mtime

\* C6: when the first run is over, every regular file of the source whose
\* target was missing or differed in size, mode or modification time has a
\* target with the size, mode, modification time and content of the source.
C6_FilesMirrored ==
    FirstRunDone =>
        \A f \in FileRels :
            IsRegular(SrcNode(f)) /\ StaleAtStart(f) =>
                LET t == TgtLstat(f)
                IN  /\ t.err = "ok"
                    /\ t.node.size = SrcNode(f).size
                    /\ Mode(t.node) = Mode(SrcNode(f))
                    /\ t.node.mtime = SrcNode(f).mtime
                    /\ t.node.data = SrcNode(f).data

\* the object a link at rel below root resolves to, and the form of its text
Resolved(root, rel) == EvalSymlinks(fs, Path(root.abs, root.segs \o rel))

\* C7: when a run is over, for every link of the source that resolves, the
\* target path holds a link, absolute if the source link is absolute and
\* relative if it is relative, which resolves; an absolute link resolves to
\* the object the source link resolves to, a relative one to the same path
\* relative to the directory of the link.
C7_LinksMirrored ==
    mainPc = "done" =>
        \A l \in FileRels :
            IsSymlink(SrcNode(l)) /\ Resolved(args.src, l).err = "ok" =>
                LET t == TgtLstat(l)
                    rs == Resolved(args.src, l)
                    rt == Resolved(args.tgt, l)
                IN  /\ t.err = "ok"
                    /\ IsSymlink(t.node)
                    /\ t.node.link.abs = SrcNode(l).link.abs
                    /\ rt.err = "ok"
                    /\ IF SrcNode(l).link.abs
                       THEN LocOf(rt.path) = LocOf(rs.path)
                       ELSE TrimDirPrefix(Path(TRUE, LocOf(rt.path)), Path(TRUE, TgtRoot))
                            = TrimDirPrefix(Path(TRUE, LocOf(rs.path)), Path(TRUE, SrcRoot))

\* C8: the second of two runs on the trees the first one left makes no
\* directory, copies no file, removes and makes no link, and its checkers
\* forward no file and no link.
C8_SecondRunIdle ==
    run = 2 =>
        /\ gh.ops = 0
        /\ \A r \in FileRels : IsRegular(SrcNode(r)) \/ IsSymlink(SrcNode(r)) => gh.fwd[r] = 0

\* C9: the object of the target that corresponds to no source entry is
\* what it was when the first run started.
C9_OthersUntouched ==
    fs[TgtRoot \o <<"x">>] = fs0[TgtRoot \o <<"x">>]

\* C10: for a regular file of the source whose target was inspected, the
\* checker decided to forward exactly when size, mode or modification time
\* differ, and the entry went to updateList once if it decided so and not
\* at all if it did not.
C10_ForwardIffDiffers ==
    /\ \A d \in gh.chk :
         IsRegular(d.src) /\ d.err = "ok" =>
            /\ d.fwd <=> \/ d.src.size # d.tgt.size
                         \/ d.src.kind # d.tgt.kind
                         \/ d.src.perm # d.tgt.perm
                         \/ d.src.mtime # d.tgt.mtime
            /\ gh.fwd[d.path] <= IF d.fwd THEN 1 ELSE 0
    /\ \A r \in FileRels : gh.fwd[r] <= 1
\* a file whose target has another modification time only was forwarded,
\* and a file equal in all three was not
C10_Witness ==
    \E d \in gh.chk :
        /\ IsRegular(d.src) /\ d.err = "ok" /\ IsRegular(d.tgt)
        /\ d.src.size = d.tgt.size /\ d.src.perm = d.tgt.perm
        /\ d.src.mtime # d.tgt.mtime
        /\ gh.fwd[d.path] = 1

----------------------------------------------------------------------------
(* Failures in the workers                                                 *)

SyncSteps == {"open", "create", "copy", "chtimes", "chmod", "remove", "symlink"}
\* a step of syncing the entry at rel has failed in this run
StepFailed(rel) == \E x \in gh.fail : x.path = rel /\ x.step \in SyncSteps
\* the entries that went to a syncer and had no failing step
Succeeded == {r \in FileRels : gh.fwd[r] > 0 /\ ~StepFailed(r)}

\* C11: an entry for which a step of syncing failed (open, create, copy,
\* time change, permission change, removal, link creation) is not added to
\* a worker's file count, and the numFiles main reports is the number of
\* entries for which every step succeeded.
C11_FailedNotCounted ==
    /\ \A r \in FileRels : StepFailed(r) => gh.cnt[r] = 0
    /\ mainPc = "done" => total.numFiles = Cardinality(Succeeded)

\* a worker leaves its loop in this step
DirWorkerLeaves(w) == dw[w].pc # "done" /\ dw'[w].pc = "done"
CheckerLeaves(c) == ck[c].pc # "done" /\ ck'[c].pc = "done"
SyncerLeaves(s) == sy[s].pc \notin {"send", "done"} /\ sy'[s].pc \in {"send", "done"}
\* no step ends a worker whose channel is still open, ends the process or
\* panics
NoWorkerStopped ==
    /\ \A w \in Checkers : DirWorkerLeaves(w) => chans.dirList = 1
    /\ \A c \in Checkers : CheckerLeaves(c) => chans.fileList = 1
    /\ \A s \in Syncers : SyncerLeaves(s) => chans.updateList = 1
    /\ mainPc' = "fatal" => mainPc = "checkInput"
    /\ ~panicked'
\* when the run is over every file or link that went to updateList was
\* taken up by a syncer: it was counted or a step of syncing it failed
AllForwardedAttempted ==
    mainPc = "done" =>
        \A r \in FileRels :
            gh.fwd[r] > 0 /\ (IsRegular(fs[SrcRoot \o r]) \/ IsSymlink(fs[SrcRoot \o r]))
                => gh.cnt[r] > 0 \/ StepFailed(r)

\* C12: a failure on one entry never makes a worker leave its loop (a
\* worker returns only after its input channel was closed), never ends the
\* process and never panics, and every entry forwarded to updateList is
\* attempted by a syncer whatever failed on other entries.
C12_FailureIsolation == [][NoWorkerStopped]_vars /\ []AllForwardedAttempted
\* a syncer is at work on an entry after a step failed for another entry in
\* the same syncer
C12_Witness ==
    \E x \in gh.fail :
        /\ x.step \in SyncSteps
        /\ sy[x.by].entry.path.segs # x.path
        /\ sy[x.by].pc \in {"attrs", "symlink"}

----------------------------------------------------------------------------
(* The channels                                                            *)

IndexOf(rel) == CHOOSE i \in 1..Len(WalkOrder) : WalkOrder[i] = rel
\* the producer has sent the entry of rel: the walk is past rel and the
\* callback sends for it
DirSent(rel) == dp.pc # "idle" /\ IndexOf(rel) < dp.idx /\ DirEmits(fs, rel)
FileSent(rel) == fp.pc # "idle" /\ IndexOf(rel) < fp.idx /\ FileEmits(fs, rel)
\* the workers of a pool that hold the entry of rel
DirHolders(rel) == {w \in Checkers : dw[w].pc \in {"lstat", "mkdir"} /\ dw[w].entry = DirEntry(fs, rel)}
FileHolders(rel) ==
    {c \in Checkers : ck[c].pc \in {"lstat", "eval", "send"} /\ ck[c].entry = FileEntry(fs, rel)}
UpdateHolders(rel) ==
    {s \in Syncers : sy[s].pc \in {"create", "attrs", "unlink", "symlink"}
                      /\ sy[s].entry.path.segs = rel}

\* C13: in each of the three pools an entry that was sent on the channel
\* was received by exactly one worker and an entry that was not sent by
\* none, and no two workers hold the same entry.
C13_ExactlyOneReceiver ==
    \A rel \in DirRels \cup FileRels :
        /\ gh.rcvd["dirList"][rel] = IF DirSent(rel) THEN 1 ELSE 0
        /\ gh.rcvd["fileList"][rel] = IF FileSent(rel) THEN 1 ELSE 0
        /\ rel \in FileRels => gh.rcvd["updateList"][rel] = gh.fwd[rel]
        /\ gh.rcvd["updateList"][rel] <= 1
        /\ Cardinality(DirHolders(rel)) <= 1
        /\ Cardinality(FileHolders(rel)) <= 1
        /\ Cardinality(UpdateHolders(rel)) <= 1
\* a run is over in which both directories, both files and both forwarded
\* entries were received once, the two forwarded ones by different syncers
C13_Witness ==
    /\ mainPc = "done"
    /\ \A d \in DirRels : gh.rcvd["dirList"][d] = 1
    /\ \A f \in FileRels : gh.rcvd["fileList"][f] = 1 /\ gh.rcvd["updateList"][f] = 1
    /\ \A x \in Syncers : sy[x].fileCount = 1

----------------------------------------------------------------------------
(* Input validation                                                        *)

\* the command line names the same path twice, or a source that does not
\* exist or is not a directory
InputRefused ==
    \/ args.src = args.tgt
    \/ Stat(fs0, args.src).err # "ok"
    \/ ~IsDir(Stat(fs0, args.src).node)
NothingStarted ==
    /\ dp.pc = "idle" /\ fp.pc = "idle" /\ cl = "idle"
    /\ \A w \in Checkers : dw[w].pc = "idle" /\ ck[w].pc = "idle"
    /\ \A s \in Syncers : sy[s].pc = "idle"
    /\ chans = [dirList |-> 0, fileList |-> 0, updateList |-> 0]

\* C14: while checkInput has not returned no producer and no worker runs;
\* with identical paths, a missing source or a source that is not a
\* directory the process ends there, nothing was started and the
\* filesystem is what it was; the process ends there in no other case.
C14_InputChecked ==
    /\ mainPc = "checkInput" => NothingStarted
    /\ InputRefused => mainPc \in {"checkInput", "fatal"}
    /\ mainPc = "fatal" => InputRefused /\ NothingStarted /\ fs = fs0
\* the process has ended on a source that exists and is not a directory,
\* with a target tree in place
C14_Witness ==
    /\ mainPc = "fatal"
    /\ Stat(fs, args.src).err = "ok"
    /\ args.src # args.tgt
    /\ IsDir(fs[TgtRoot \o <<"a">>])

----------------------------------------------------------------------------
(* The decisions of checkTgt                                               *)

\* the target objects on the way to rel and at rel are what they were
TargetPathKept(rel) ==
    \A k \in 0..Len(rel) :
        fs[TgtRoot \o SubSeq(rel, 1, k)] = fs0[TgtRoot \o SubSeq(rel, 1, k)]

\* C15: when the Lstat of the target path reported that nothing exists the
\* checker decided to forward the entry, and the entry has gone to
\* updateList once when the run is over; when the Lstat failed in another
\* way the checker decided to drop it, the entry never goes to updateList
\* and the target objects on its path stay what they were.
C15_MissingForwardedErrorDropped ==
    \A d \in gh.chk :
        d.at = "lstat" /\ d.err # "ok" =>
            IF IsNotExist(d.err)
            THEN d.fwd /\ (mainPc = "done" => gh.fwd[d.path] = 1)
            ELSE ~d.fwd /\ gh.fwd[d.path] = 0 /\ TargetPathKept(d.path)
\* a run is over in which one entry was dropped on an Lstat error other than
\* non-existence and another one, missing in the target, was forwarded
C15_Witness ==
    /\ mainPc = "done"
    /\ \E d \in gh.chk : d.at = "lstat" /\ d.err = "enotdir" /\ gh.fwd[d.path] = 0
    /\ \E d \in gh.chk : d.at = "lstat" /\ d.err = "enoent" /\ gh.fwd[d.path] = 1

\* the linkPath parseSrcFiles computes for a link at the path p
\* (syncSrc.go:47-57)
LinkPathAt(f, p) == RelSymPath(EvalSymlinks(f, p).path, p)

\* the step of checker c for a link of the source whose target path exists
LinkDecided(c) ==
    LET e == ck[c].entry
        p == TgtPathOf(e)
        t == Lstat(fs, p)
    IN  ck'[c] # ck[c] =>
          /\ ck[c].pc = "lstat" /\ IsSymlink(e.info) /\ t.err = "ok" /\ ~IsSymlink(t.node)
              => ck'[c].pc = "send"
          /\ ck[c].pc = "lstat" /\ IsSymlink(e.info) /\ t.err = "ok" /\ IsSymlink(t.node)
              => ck'[c].pc = "eval"
          /\ ck[c].pc = "eval" /\ EvalSymlinks(fs, p).err = "ok"
              => /\ ck'[c].pc \in {"send", "recv"}
                 /\ ck'[c].pc = "send" <=> LinkPathAt(fs, p) # e.linkPath

\* C16: for a link of the source whose target path exists the checker
\* forwards the entry when the target is not a link; when it is a link that
\* resolves, the checker forwards the entry exactly when the path computed
\* for the target link in the way parseSrcFiles computes linkPath differs
\* from the linkPath of the entry.
C16_LinkCompared == [][\A c \in Checkers : LinkDecided(c)]_vars
\* a target link that resolves to another path than the source link was
\* forwarded
C16_Witness ==
    \E d \in gh.chk :
        /\ d.at = "eval" /\ d.err = "ok" /\ IsSymlink(d.src) /\ IsSymlink(d.tgt)
        /\ d.fwd /\ gh.fwd[d.path] = 1

----------------------------------------------------------------------------
(* Directory creation                                                      *)

\* the first phase is over and the second has not begun
PhaseOneOver == mainPc = "startFiles"
MkdirAllFailed == \E x \in gh.fail : x.step = "mkdirall"
\* a target path of a source directory held something that is not a
\* directory when the first run started
TargetBlocked ==
    \E d \in DirRels :
        LET t == Lstat(fs0, Path(args.tgt.abs, args.tgt.segs \o d))
        IN  (t.err = "ok" /\ ~IsDir(t.node)) \/ t.err = "enotdir"
\* no creation failed because the directory was there already, and after a
\* first phase without failure every directory of the source is a directory
\* of the target
DirsMadeOrThere ==
    /\ \A x \in gh.fail : x.step = "mkdirall" => x.err # "eexist"
    /\ PhaseOneOver /\ ~MkdirAllFailed /\ ~TargetBlocked =>
          \A d \in DirRels :
              LET t == TgtLstat(d) IN t.err = "ok" /\ IsDir(t.node)
\* a worker that has taken a directory from dirList goes on to create it
CreatesUnchecked ==
    \A w \in Checkers : dw[w].pc = "lstat" /\ dw'[w] # dw[w] => dw'[w].pc = "mkdir"

\* C17: a creation never fails because the directory is there already;
\* when the first phase is over and no creation failed every directory of
\* the source is a directory of the target; and a worker creates every
\* directory it receives, pre-existence being a success of the creation,
\* whatever a check of the target path before the creation says.
C17_CreateNotCheckThenCreate == [][CreatesUnchecked /\ DirsMadeOrThere']_vars

----------------------------------------------------------------------------
(* Links in syncFiles                                                      *)

\* the step of syncer s on a link entry: the removal of what is at the
\* target path, then the creation of the link
LinkReplaced(s) ==
    LET e == sy[s].entry
        p == TgtPathOf(e)
        t == Lstat(fs, p)
        Uncounted == sy'[s].fileCount = sy[s].fileCount
    IN  sy'[s] # sy[s] =>
          /\ sy[s].pc = "unlink" =>
                /\ Uncounted
                /\ IF t.err # "ok"
                   THEN fs' = fs /\ sy'[s].pc = "symlink"
                   ELSE IF Remove(fs, p).err # "ok"
                        THEN fs' = fs /\ sy'[s].pc = "recv"
                        ELSE Lstat(fs', p).err = "enoent" /\ sy'[s].pc = "symlink"
          /\ sy[s].pc = "symlink" =>
                /\ sy'[s].pc = "recv"
                /\ IF fs' = fs
                   THEN Uncounted
                   ELSE /\ t.err = "enoent"
                        /\ Lstat(fs', p).node = LinkNode(e.linkPath)
                        /\ sy'[s].fileCount = sy[s].fileCount + 1
          /\ sy[s].pc \notin {"unlink", "symlink"} /\ IsSymlink(sy'[s].entry.info) =>
                fs' = fs

\* C18: for a link entry syncFiles first removes what is at the target path
\* and then makes the link to linkPath where nothing is left; when the
\* removal fails no link is made and the entry is not counted, when the
\* creation fails the entry is not counted, and only a link that was made
\* is counted.
C18_RemoveThenLink == [][\A s \in Syncers : LinkReplaced(s)]_vars
\* a link was made at a target path that held a wrong link, and counted
C18_Witness ==
    /\ IsSymlink(fs0[TgtRoot \o <<"l">>])
    /\ IsSymlink(fs[TgtRoot \o <<"l">>])
    /\ fs[TgtRoot \o <<"l">>] # fs0[TgtRoot \o <<"l">>]
    /\ fs[TgtRoot \o <<"l">>].link = fs[SrcRoot \o <<"l">>].link
    /\ gh.cnt[<<"l">>] = 1

----------------------------------------------------------------------------
(* Entries of another kind                                                 *)

IsOther(n) == n.kind \notin {"none", "dir", "file", "link"}
\* the step of syncer s that has or takes an entry that is neither a
\* regular file nor a link
OtherSkipped(s) ==
    IsOther(sy'[s].entry.info) /\ sy'[s] # sy[s] =>
        /\ fs' = fs
        /\ sy'[s].fileCount = sy[s].fileCount
        /\ sy'[s].numBytes = sy[s].numBytes
        /\ sy'[s].pc \in {"recv", "send", "done"}

\* C19: a syncer that receives an entry that is neither a regular file nor
\* a link goes back to receiving at once: the filesystem, its file count
\* and its byte count are what they were, and the target path of such an
\* entry is never changed by anybody.
C19_OtherKindSkipped ==
    [][/\ \A s \in Syncers : OtherSkipped(s)
       /\ \A r \in FileRels :
            IsOther(fs[SrcRoot \o r]) =>
                fs'[TgtRoot \o r] = fs[TgtRoot \o r] /\ gh'.cnt[r] = 0]_vars
\* a fifo of the source went to a syncer, which is receiving again, and the
\* target has nothing at its path
C19_Witness ==
    \E s \in Syncers :
        /\ IsOther(sy[s].entry.info)
        /\ sy[s].pc = "recv"
        /\ gh.fwd[sy[s].entry.path.segs] = 1
        /\ fs[TgtRoot \o sy[s].entry.path.segs] = NoNode

----------------------------------------------------------------------------
(* The producers                                                           *)

\* the walk can reach rel: everything above it is a directory that can be
\* read
Reachable(rel) ==
    \A k \in 0..(Len(rel) - 1) :
        LET n == fs[SrcRoot \o SubSeq(rel, 1, k)]
        IN  n.kind = "dir" /\ n.perm # PermNR
\* the directories, and the files, links that resolve and other objects,
\* that the walk can reach; the directories among them that can be read
ReachableDirs == {r \in DirRels \cup FileRels : Reachable(r) /\ fs[SrcRoot \o r].kind = "dir"}
AccessibleDirs == {r \in ReachableDirs : fs[SrcRoot \o r].perm # PermNR}
AccessibleFiles ==
    {r \in DirRels \cup FileRels :
        /\ Reachable(r)
        /\ fs[SrcRoot \o r].kind \notin {"none", "dir"}
        /\ fs[SrcRoot \o r].kind = "link" => Stat(fs, SrcPath(r)).err = "ok"}
\* the count n of entries delivered so far, all of them in the set R and
\* all of the set A due, for a channel closed c times by a producer at pc
ProducedOnce(n, R, A, c, pc) ==
    /\ \A r \in DirRels \cup FileRels : n[r] <= IF r \in R THEN 1 ELSE 0
    /\ c = IF pc = "done" THEN 1 ELSE 0
    /\ c = 1 => \A r \in A : n[r] = 1

\* C20: parseSrcDirs delivers directories only and parseSrcFiles objects
\* that are not directories only, each object the walk can reach at most
\* once and under a path of its own, nothing else; a channel is closed at
\* most once, by its producer when it ends, and when it is closed every
\* directory the walk can reach and read, and every file, resolving link
\* and other object it can reach, has been delivered, also the ones that
\* come after a directory that cannot be read or a link that does not
\* resolve.
C20_ProducersEmitOnceThenClose ==
    /\ ProducedOnce(gh.rcvd["dirList"], ReachableDirs, AccessibleDirs, chans.dirList, dp.pc)
    /\ ProducedOnce(gh.rcvd["fileList"], AccessibleFiles, AccessibleFiles, chans.fileList, fp.pc)
    /\ \A r1, r2 \in ReachableDirs : r1 # r2 => DirEntry(fs, r1).path # DirEntry(fs, r2).path
    /\ \A r1, r2 \in AccessibleFiles : r1 # r2 => FileEntry(fs, r1).path # FileEntry(fs, r2).path
\* both channels are closed after a walk that could not read the directory
\* a: the root was delivered as a directory, the file in a was not
\* delivered, the link after a was
C20_Witness ==
    /\ chans.dirList = 1 /\ chans.fileList = 1
    /\ fs[SrcRoot \o <<"a">>].perm = PermNR
    /\ args.walk = "read"
    /\ gh.rcvd["dirList"][<<>>] = 1
    /\ gh.rcvd["fileList"][<<"a", "f">>] = 0
    /\ gh.rcvd["fileList"][<<"l">>] = 1

----------------------------------------------------------------------------
(* The entries of parseSrcFiles                                            *)

\* the entries the checkers hold
HeldEntries == {ck[c].entry : c \in Checkers} \ {NoEntry}
\* the path of the source object the entry e was made for
SrcOf(e) == Path(args.src.abs, args.src.segs \o e.path.segs)
\* the linkPath lp names, taken relative to the directory of the link at p,
\* the object the link at p resolves to
SameObject(lp, p) ==
    LET viaLink == Stat(fs, p)
        viaPath == Stat(fs, Path(p.abs, Front(p.segs) \o lp.segs))
    IN  viaLink.err = "ok" /\ viaPath.err = "ok" /\ LocOf(viaPath.path) = LocOf(viaLink.path)

\* C21: a link of the source that does not resolve is never delivered;
\* the entry of a link has a linkPath that is not empty, equal to the text
\* of the link when that is absolute, and relative and naming the object
\* the link resolves to from the directory of the link when the text is
\* relative; an entry that is not a link has an empty linkPath.
C21_LinkPathResolved ==
    /\ \A r \in FileRels :
         IsSymlink(fs[SrcRoot \o r]) /\ Stat(fs, SrcPath(r)).err # "ok" =>
            gh.rcvd["fileList"][r] = 0
    /\ \A e \in HeldEntries :
         IF IsSymlink(e.info)
         THEN /\ e.linkPath # NoPath
              /\ IF e.info.link.abs
                 THEN e.linkPath = e.info.link
                 ELSE ~e.linkPath.abs /\ SameObject(e.linkPath, SrcOf(e))
         ELSE e.linkPath = NoPath

----------------------------------------------------------------------------
(* The target paths of the syncers                                         *)

\* the syncers at work on an entry
Working == {s \in Syncers : sy[s].pc \in {"create", "attrs", "unlink", "symlink"}}

\* the object of the target a syncer at work writes, removes or makes: the
\* copy and the changes of time and mode follow a link at the target path,
\* the removal and the creation of a link do not
WriteLoc(s) ==
    LET p == TgtPathOf(sy[s].entry)
    IN  IF sy[s].pc \in {"create", "attrs"}
        THEN LocOf(Stat(fs, p).path)
        ELSE LocOf(Lstat(fs, p).path)
\* no two syncers are at work on the same target path, every path of the
\* source is delivered to the checkers at most once, sent on updateList at
\* most once and taken by at most one syncer
PathsTakenOnce ==
    /\ \A s1, s2 \in Working :
         s1 # s2 => TgtPathOf(sy[s1].entry) # TgtPathOf(sy[s2].entry)
    /\ \A r \in FileRels :
         /\ gh.rcvd["fileList"][r] <= 1
         /\ gh.fwd[r] <= gh.rcvd["fileList"][r]
         /\ gh.rcvd["updateList"][r] <= gh.fwd[r]
    /\ \A s \in Working : gh.fwd[sy[s].entry.path.segs] = 1

\* C22: no two syncers are at work on the same target path at the same
\* time, every path of the source being delivered once, forwarded at most
\* once and taken by at most one syncer, and so no two syncers are at
\* work on the same object of the target at the same time.
C22_DistinctTargetPaths ==
    /\ PathsTakenOnce
    /\ \A s1, s2 \in Working : s1 # s2 => WriteLoc(s1) # WriteLoc(s2)

----------------------------------------------------------------------------
(* The parent directory of a synced entry                                  *)

\* the directory the target path of the entry of syncer s lies in is there
ParentThere(s) ==
    LET d == Stat(fs, Dir(TgtPathOf(sy[s].entry)))
    IN  d.err = "ok" /\ IsDir(d.node)

\* C23: when no creation of the directory phase failed and no target path
\* of a source directory was taken by another object, the directory a
\* syncer is about to create a file or a link in exists, and no creation
\* of a file or a link fails for a missing directory.
C23_ParentExists ==
    ~MkdirAllFailed /\ ~TargetBlocked =>
        /\ \A s \in Syncers : sy[s].pc \in {"create", "symlink"} => ParentThere(s)
        /\ \A x \in gh.fail :
              x.step \in {"create", "symlink"} => x.err \notin {"enoent", "enotdir"}
\* a syncer is about to create the file in a directory that the directory
\* phase of this run made
C23_Witness ==
    /\ ~MkdirAllFailed /\ ~TargetBlocked
    /\ fs0[TgtRoot \o <<"a">>] = NoNode
    /\ \E s \in Syncers :
          /\ sy[s].pc = "create"
          /\ sy[s].entry.path.segs = <<"a", "f">>
          /\ Lstat(fs, TgtPathOf(sy[s].entry)).err = "enoent"

----------------------------------------------------------------------------
(* A target link that does not resolve                                     *)

\* the decisions taken for a link of the source on a target link whose
\* resolution failed
Unresolved ==
    {d \in gh.chk : d.at = "eval" /\ d.err # "ok" /\ IsSymlink(d.src) /\ IsSymlink(d.tgt)}
TgtLoc(rel) == LocOf(Path(args.tgt.abs, args.tgt.segs \o rel))

\* C24: a link of the source whose target path holds a link that does not
\* resolve is not forwarded and no syncer receives it; the target link
\* stays the link the checker found, which in the first run is the link
\* the run started with.
C24_UnresolvedLinkKept ==
    \A d \in Unresolved :
        /\ ~d.fwd
        /\ gh.fwd[d.path] = 0
        /\ gh.rcvd["updateList"][d.path] = 0
        /\ \A s \in Syncers : sy[s].entry # NoEntry => sy[s].entry.path.segs # d.path
        /\ fs[TgtLoc(d.path)] = d.tgt
        /\ run = 1 => fs[TgtLoc(d.path)] = fs0[TgtLoc(d.path)]
\* a run is over in which the resolution of a target link failed, and the
\* link is still there and still leads nowhere
C24_Witness ==
    /\ mainPc = "done"
    /\ \E d \in Unresolved :
          /\ IsSymlink(fs[TgtLoc(d.path)])
          /\ TgtStat(d.path).err # "ok"

----------------------------------------------------------------------------
(* Who changes the target in the file phase                                *)

\* a step in which a checker moves changes no object
CheckersReadOnly == (\E c \in Checkers : ck'[c] # ck[c]) => fs' = fs
\* once the directory phase is over a step that changes an object is the
\* step of one syncer at work, and of nobody else
ChangeBySyncer ==
    mainPc \in {"startFiles", "collect", "done"} /\ fs' # fs =>
        /\ ck' = ck /\ dw' = dw
        /\ \E s \in Working : sy'[s] # sy[s] /\ \A t \in Syncers \ {s} : sy'[t] = sy[t]
\* the decisions to forward an entry taken in this run
Forwarded == {d \in gh.chk : d.fwd}
Received == SumOver(FileRels, gh.rcvd["updateList"])
\* the syncers have received as many entries as the checkers have sent,
\* never more than the checkers decided to forward and all of them once
\* updateList is closed; the entries counted by the syncers and the total
\* of main are at most that number
CountedWithinForwarded ==
    /\ Received = SumOver(FileRels, gh.fwd)
    /\ Received <= Cardinality(Forwarded)
    /\ chans.updateList > 0 => Received = Cardinality(Forwarded)
    /\ SumOver(Syncers, WorkerFiles) <= Received
    /\ total.numFiles <= Received

\* C25: no step of a checker changes an object; after the directory phase
\* every change of an object is the step of one syncer; the syncers receive
\* exactly the entries the checkers forward, and numFiles is at most the
\* number of forwarded entries.
C25_OnlySyncersWrite ==
    [][CheckersReadOnly /\ ChangeBySyncer /\ CountedWithinForwarded']_vars
\* a run is over that changed the target and counted an entry, with an
\* entry forwarded that was not counted
C25_Witness ==
    /\ mainPc = "done"
    /\ fs # fs0
    /\ total.numFiles >= 1
    /\ total.numFiles < Cardinality(Forwarded)
====
